---- MODULE Spec2Model ----
(***************************************************************************)
(* Webhook ingestion and conversation/message state engine of the WhatsApp *)
(* integration: whatsapp.account, whatsapp.conversation, whatsapp.message  *)
(* and the /whatsapp/webhook controller.                                   *)
(*                                                                         *)
(* Several requests (webhook POSTs, get_or_create calls, sends) run        *)
(* concurrently.  Every ORM search / create / write is one atomic step on  *)
(* the shared tables; consecutive code that touches no table is folded     *)
(* into the step of the table operation before it.  A row is visible to    *)
(* every request from the step that writes it on; the except clause of     *)
(* receive_webhook returns normally, so what a delivery wrote before an    *)
(* exception stays written.                                                *)
(***************************************************************************)
EXTENDS Integers, Sequences, FiniteSets, TLC

\* ---------------------------------------------------------------- bounds
MaxMessages == 2
MaxAccounts == 4

\* ------------------------------------------------------------ input sets
Procs == {1, 2}
Phones == {"p1", "p2"}
ProviderIds == {"w1", "w2"}
InboundIds == {"w1"}
RequestErrors == {"Timeout", "HTTPError"}
StatusStrings == {"sent", "delivered", "read", "failed", "bogus"}

None == "None"      \* Python None / False / missing value
NoId == 0           \* empty recordset
EmptyDict == <<>>   \* {}

\* dict.get(k, default)
Get(d, k, default) == IF k \in DOMAIN d THEN d[k] ELSE default

\* Python truthiness of an optional string
Truthy(x) == x # None /\ x # ""

VARIABLES accounts, conversations, messages, proc, issued, templates

vars == <<accounts, conversations, messages, proc, issued, templates>>

\* ------------------------------------------------------------- accounts
\* whatsapp.account rows; the id of a row is its index.
InitAccounts ==
    << [phone_number_id |-> "pn1", verify_token |-> "t1", active |-> TRUE,
        state |-> "disconnected", waba_id |-> "wb1"],
       [phone_number_id |-> "pn2", verify_token |-> "t2", active |-> TRUE,
        state |-> "disconnected", waba_id |-> None],
       [phone_number_id |-> "pn3", verify_token |-> "t3", active |-> FALSE,
        state |-> "disconnected", waba_id |-> "wb3"] >>

PhoneNumberIds == {"pn1", "pn2", "pn3", "pnX"}
SendAccounts == {1, 2}

\* a search whose domain leaves out active
SearchAccountAnyActive(pn) ==
    LET hits == {a \in 1..Len(accounts) : accounts[a].phone_number_id = pn}
    IN IF hits = {} THEN NoId ELSE CHOOSE a \in hits : \A b \in hits : a <= b

\* search([('phone_number_id','=',pn), ('active','=',True)], limit=1)
SearchAccount(pn) ==
    LET hits == {a \in 1..Len(accounts) :
                    accounts[a].phone_number_id = pn /\ accounts[a].active}
    IN IF hits = {} THEN NoId ELSE CHOOSE a \in hits : \A b \in hits : a <= b

\* a token search whose domain leaves out active
SearchAccountByTokenAnyActive(token) ==
    LET hits == {a \in 1..Len(accounts) : accounts[a].verify_token = token}
    IN IF hits = {} THEN NoId ELSE CHOOSE a \in hits : \A b \in hits : a <= b

\* search([('verify_token','=',token), ('active','=',True)], limit=1)
SearchAccountByToken(token) ==
    LET hits == {a \in 1..Len(accounts) :
                    accounts[a].verify_token = token /\ accounts[a].active}
    IN IF hits = {} THEN NoId ELSE CHOOSE a \in hits : \A b \in hits : a <= b

\* a table without the unique constraint
NoAccountConstraint(table) == FALSE

\* unique(phone_number_id) on the whatsapp.account table
AccountUniqueViolation(table) ==
    \E a, b \in 1..Len(table) :
        a # b /\ table[a].phone_number_id = table[b].phone_number_id

\* the row create() inserts: state and active take their defaults
NewAccount(pn, token) ==
    [phone_number_id |-> pn, verify_token |-> token, active |-> TRUE,
     state |-> "disconnected", waba_id |-> None]

\* -------------------------------------------------------- conversations
\* whatsapp.conversation rows; the id of a row is its index.

\* a search whose domain leaves out the phone number
SearchConversationByAccount(account_id, phone_number) ==
    LET hits == {c \in 1..Len(conversations) :
                    conversations[c].account_id = account_id}
    IN IF hits = {} THEN NoId ELSE CHOOSE c \in hits : \A d \in hits : c <= d

\* search([('account_id','=',a), ('phone_number','=',ph)], limit=1)
SearchConversation(account_id, phone_number) ==
    LET hits == {c \in 1..Len(conversations) :
                    /\ conversations[c].account_id = account_id
                    /\ conversations[c].phone_number = phone_number}
    IN IF hits = {} THEN NoId ELSE CHOOSE c \in hits : \A d \in hits : c <= d

\* a table without the unique constraint
NoUniqueConstraint(account_id, phone_number) == FALSE

\* unique(phone_number, account_id): does an insert of this key violate it?
UniqueViolation(account_id, phone_number) ==
    \E c \in 1..Len(conversations) :
        /\ conversations[c].account_id = account_id
        /\ conversations[c].phone_number = phone_number

NewConversation(account_id, phone_number) ==
    [account_id |-> account_id, phone_number |-> phone_number,
     unread_count |-> 0]

\* a get_or_create that returns the conversation record
GetOrCreateRecord(cid) == [kind |-> "record", val |-> cid]

\* get_or_create returns conversation.id: an integer, not a record.
GetOrCreateResult(cid) == [kind |-> "int", val |-> cid]

\* `conversation.id` in process_webhook_message: only a record has .id
HasIdAttr(v) == v.kind = "record"

\* ------------------------------------------------------------- messages
\* whatsapp.message rows; the id of a row is its index.  Rows are created
\* in timestamp order, so _order 'timestamp desc, id desc' is index desc.

\* a search whose domain leaves out the provider message id
SearchMessageByAccount(message_id, account_id) ==
    LET hits == {m \in 1..Len(messages) : messages[m].account_id = account_id}
    IN IF hits = {} THEN NoId ELSE CHOOSE m \in hits : \A n \in hits : m >= n

\* a domain that leaves out the account
InDomainAnyAccount(row, message_id, account_id) ==
    row.whatsapp_message_id = message_id

\* the domain [('whatsapp_message_id','=',id), ('account_id','=',a)]
InDomain(row, message_id, account_id) ==
    /\ row.whatsapp_message_id = message_id
    /\ row.account_id = account_id

\* search(domain, limit=1)
SearchMessage(message_id, account_id) ==
    LET hits == {m \in 1..Len(messages) :
                    InDomain(messages[m], message_id, account_id)}
    IN IF hits = {} THEN NoId ELSE CHOOSE m \in hits : \A n \in hits : m >= n

\* a status map that lets every string through
StatusMapAny(status) == status

\* status_map.get(status)
StatusMap(status) ==
    IF status \in {"sent", "delivered", "read", "failed"} THEN status ELSE None

IncomingVals(account_id, conversation_id, phone, message_type, message_id) ==
    [account_id |-> account_id, conversation_id |-> conversation_id,
     direction |-> "incoming", phone_number |-> phone,
     message_type |-> message_type, whatsapp_message_id |-> message_id,
     status |-> "delivered", error_message |-> None]

SentVals(account_id, conversation_id, to, message_type, message_id) ==
    [account_id |-> account_id, conversation_id |-> conversation_id,
     direction |-> "outgoing", phone_number |-> to,
     message_type |-> message_type, whatsapp_message_id |-> message_id,
     status |-> "sent", error_message |-> None]

\* a failure row that drops the exception text
FailedValsNoDetail(account_id, conversation_id, to, message_type, e) ==
    [account_id |-> account_id, conversation_id |-> conversation_id,
     direction |-> "outgoing", phone_number |-> to,
     message_type |-> message_type, whatsapp_message_id |-> None,
     status |-> "failed", error_message |-> None]

FailedVals(account_id, conversation_id, to, message_type, e) ==
    [account_id |-> account_id, conversation_id |-> conversation_id,
     direction |-> "outgoing", phone_number |-> to,
     message_type |-> message_type, whatsapp_message_id |-> None,
     status |-> "failed", error_message |-> e]

\* ---- content of a row
\* A content string is the sequence of the pieces it is formatted from.
\* str.title() on the type names that occur
Title(t) ==
    CASE t = "sticker" -> "Sticker"
      [] t = "contacts" -> "Contacts"
      [] t = "interactive" -> "Interactive"
      [] t = "order" -> "Order"
      [] OTHER -> t

\* the Selection of message_type: create() rejects any other value
MessageTypeSelection ==
    {"text", "image", "video", "audio", "document", "location", "contacts",
     "sticker", "template", "interactive", "reaction"}

\* content by type, the if/elif chain of process_webhook_message; "pin "
\* stands for the map-pin character and blank that open a location string
DeriveContent(message_data) ==
    LET message_type == Get(message_data, "type", "text")
        part == Get(message_data, message_type, EmptyDict)
    IN CASE message_type = "text" -> <<Get(part, "body", "")>>
         [] message_type = "image" -> <<Get(part, "caption", "[Image]")>>
         [] message_type = "document" -> <<Get(part, "filename", "[Document]")>>
         [] message_type = "audio" -> <<"[Audio Message]">>
         [] message_type = "video" -> <<Get(part, "caption", "[Video]")>>
         [] message_type = "location" ->
                <<"pin ", Get(part, "name", ""), " (", Get(part, "latitude", None),
                  ", ", Get(part, "longitude", None), ")">>
         [] message_type = "reaction" -> <<"Reaction: ", Get(part, "emoji", "")>>
         [] OTHER -> <<"[", Title(message_type), " message]">>

\* media_url by type: the provider media id, None for the other types
DeriveMediaUrl(message_data) ==
    LET message_type == Get(message_data, "type", "text")
    IN IF message_type \in {"image", "document", "audio", "video"}
       THEN Get(Get(message_data, message_type, EmptyDict), "id", None)
       ELSE None

\* content of an outgoing row: the text sent, or the template's name
SendContent(kind) ==
    IF kind = "text" THEN <<"hello">> ELSE <<"Template: ", "tpl">>

\* vals with their content and media_url keys
WithContent(vals, content, media_url) ==
    [f \in DOMAIN vals \cup {"content", "media_url"} |->
        IF f = "content" THEN content
        ELSE IF f = "media_url" THEN media_url ELSE vals[f]]

\* a status update that inserts a row when the search finds none
ProcessStatusUpdateUpsert(account_id, status_data) ==
    LET message_id == Get(status_data, "id", None)
        status     == Get(status_data, "status", None)
        m          == SearchMessage(message_id, account_id)
    IN IF m = NoId
       THEN <<Append(messages,
                     WithContent([SentVals(account_id, NoId, None, "text", message_id)
                                     EXCEPT !.status = status], <<>>, None)),
              Len(messages) + 1>>
       ELSE <<[messages EXCEPT ![m].status = status], m>>

\* an early return that asks for the status only
MissingStatus(message_id, status) == ~Truthy(status)

\* `if not message_id or not status: return False`
MissingIdOrStatus(message_id, status) == ~Truthy(message_id) \/ ~Truthy(status)

\* a status write that never moves a message back in its lifecycle
WriteStatusForward(row, new_status) ==
    LET rank(x) == CASE x = "sent" -> 1 [] x = "delivered" -> 2
                     [] x = "read" -> 3 [] OTHER -> 4
    IN IF rank(new_status) >= rank(row.status)
       THEN [row EXCEPT !.status = new_status] ELSE row

\* message.status = new_status
WriteStatus(row, new_status) == [row EXCEPT !.status = new_status]

\* an error write that takes the last listed error
WriteErrorLast(row, status, errors) ==
    IF status = "failed" /\ errors # <<>>
    THEN [row EXCEPT !.error_message =
                Get(errors[Len(errors)], "message", "Unknown error")]
    ELSE row

\* if status == 'failed': errors[0].get('message', 'Unknown error')
WriteError(row, status, errors) ==
    IF status = "failed" /\ errors # <<>>
    THEN [row EXCEPT !.error_message = Get(errors[1], "message", "Unknown error")]
    ELSE row

\* process_status_update applied to the message table: <<table, record>>
ProcessStatusUpdate(account_id, status_data) ==
    LET message_id == Get(status_data, "id", None)
        status     == Get(status_data, "status", None)
    IN IF MissingIdOrStatus(message_id, status) THEN <<messages, NoId>>
       ELSE LET m == SearchMessage(message_id, account_id)
                new_status == StatusMap(status)
                errors == Get(status_data, "errors", <<>>)
            IN IF m = NoId \/ new_status = None THEN <<messages, m>>
               ELSE <<[messages EXCEPT ![m] =
                          WriteError(WriteStatus(@, new_status), status, errors)], m>>

\* --------------------------------------------------------- webhook body
\* One change object of a delivery.
Change(pn, ms, cs, ss) ==
    [field |-> "messages",
     value |-> [metadata |-> [phone_number_id |-> pn],
                messages |-> ms, contacts |-> cs, statuses |-> ss]]

Msg(ph, w) == [from |-> ph, id |-> w, type |-> "text"]
Contact(ph) == [wa_id |-> ph]
Status(w, s) == [id |-> w, status |-> s]
FailedStatus(w) ==
    [id |-> w, status |-> "failed",
     errors |-> <<[message |-> "e1"], [message |-> "e2"]>>]

Envelope(cs) == [entry |-> <<[changes |-> cs]>>]

\* inbound messages of the provider's types, from phone ph
TypedMessages(ph) ==
    {[from |-> ph, id |-> "w1", type |-> "text", text |-> [body |-> "hi"]],
     [from |-> ph, id |-> "w1", type |-> "image", image |-> [id |-> "m1"]],
     [from |-> ph, id |-> "w1", type |-> "image",
      image |-> [id |-> "m1", caption |-> "hello"]],
     [from |-> ph, id |-> "w1", type |-> "video", video |-> [id |-> "m1"]],
     [from |-> ph, id |-> "w1", type |-> "document",
      document |-> [id |-> "m1", filename |-> "f.pdf"]],
     [from |-> ph, id |-> "w1", type |-> "document", document |-> [id |-> "m1"]],
     [from |-> ph, id |-> "w1", type |-> "audio", audio |-> [id |-> "m1"]],
     [from |-> ph, id |-> "w1", type |-> "location",
      location |-> [name |-> "HQ", latitude |-> "1.0", longitude |-> "2.0"]],
     [from |-> ph, id |-> "w1", type |-> "reaction", reaction |-> [emoji |-> ":)"]],
     [from |-> ph, id |-> "w1", type |-> "sticker", sticker |-> [id |-> "m1"]],
     [from |-> ph, id |-> "w1", type |-> "order"],
     [from |-> ph, id |-> "w1"]}

StatusItems ==
    {Status(w, s) : w \in ProviderIds, s \in StatusStrings}
        \cup {FailedStatus(w) : w \in ProviderIds}

StatusChanges == {Change(pn, <<>>, <<>>, <<s>>) : pn \in {"pn1", "pn2"}, s \in StatusItems}

MessageChanges ==
    {Change(pn, <<Msg(ph, w)>>, <<Contact(ph)>>, <<>>) :
        pn \in {"pn1", "pn2"}, ph \in Phones, w \in InboundIds}
    \cup {Change("pn1", <<Msg(ph, w), Msg(ph, w)>>, <<>>, <<>>) :
        ph \in Phones, w \in InboundIds}

MixedChange == Change("pn1", <<Msg("p1", "w1")>>, <<>>, <<Status("w1", "delivered")>>)

SkippedChanges ==
    { Change("pn3", <<Msg("p1", "w1")>>, <<>>, <<>>),
      Change("pnX", <<Msg("p1", "w1")>>, <<>>, <<>>),
      [field |-> "messages", value |-> [messages |-> <<Msg("p1", "w1")>>]],
      [field |-> "account_update", value |-> EmptyDict] }

\* The JSON objects request.get_json_data() can yield.
JsonBodies ==
    {Envelope(<<c>>) : c \in StatusChanges \cup MessageChanges \cup {MixedChange}}
    \cup {Envelope(<<c, Change("pn1", <<>>, <<>>, <<Status("w1", "read")>>)>>) :
            c \in SkippedChanges \cup {Change("pn2", <<Msg("p2", "w1")>>, <<>>, <<>>)}}
    \cup {Envelope(<<Change("pn1", <<>>, <<>>, <<Status("w1", "read")>>),
                     Change("pn1", <<Msg("p1", "w1")>>, <<>>, <<>>)>>)}
    \cup {Change("pn1", <<>>, <<>>, <<Status("w1", "delivered")>>),
          Change("pn1", <<Msg("p1", "w1")>>, <<>>, <<>>)}
    \cup {EmptyDict}

\* A request body: parsed JSON object, or a body get_json_data() rejects.
Bodies == {[parse |-> "ok", data |-> d] : d \in JsonBodies}
            \cup {[parse |-> "error", data |-> EmptyDict]}

\* ------------------------------------------------------- webhook cursor
\* a loop over the entries that starts with the last one
CursorLastEntryFirst(entries) ==
    [entries |-> [i \in 1..Len(entries) |-> entries[Len(entries) + 1 - i]],
     changes |-> <<>>, account |-> NoId,
     contacts |-> <<>>, msgs |-> <<>>, stats |-> <<>>]

\* Position of receive_webhook in its nested loops: entries and changes
\* still to visit, and the messages / statuses left in the current change.
Cursor(entries) ==
    [entries |-> entries, changes |-> <<>>, account |-> NoId,
     contacts |-> <<>>, msgs |-> <<>>, stats |-> <<>>]

EmptyCursor == Cursor(<<>>)

HasItems(c) == c.msgs # <<>> \/ c.stats # <<>>

\* Run the loop headers up to the next message or status item.
RECURSIVE Advance(_)
Advance(c) ==
    IF HasItems(c) THEN c
    ELSE IF c.changes # <<>> THEN
        LET change   == Head(c.changes)
            rest     == [c EXCEPT !.changes = Tail(c.changes)]
            value    == Get(change, "value", EmptyDict)
            metadata == Get(value, "metadata", EmptyDict)
            pnid     == Get(metadata, "phone_number_id", None)
            account  == SearchAccount(pnid)
        IN IF Get(change, "field", None) # "messages" THEN Advance(rest)
           ELSE IF ~Truthy(pnid) THEN Advance(rest)
           ELSE IF account = NoId THEN Advance(rest)
           ELSE Advance([rest EXCEPT !.account = account,
                                     !.msgs = Get(value, "messages", <<>>),
                                     !.contacts = Get(value, "contacts", <<>>),
                                     !.stats = Get(value, "statuses", <<>>)])
    ELSE IF c.entries # <<>> THEN
        Advance([c EXCEPT !.entries = Tail(c.entries),
                          !.changes = Get(Head(c.entries), "changes", <<>>)])
    ELSE c

\* entries read without the flattened form: data.get('entry', [])
EntriesOnly(data) == Get(data, "entry", <<>>)

\* entries of the body: the 'entry' list, or the flattened change wrapped.
Entries(data) ==
    LET entries == Get(data, "entry", <<>>)
    IN IF entries = <<>> /\ "field" \in DOMAIN data /\ "value" \in DOMAIN data
       THEN <<[changes |-> <<data>>]>>
       ELSE entries

\* next((c for c in contacts if c.get('wa_id') == message.get('from')), {})
FindContact(contacts, from) ==
    LET hits == {i \in 1..Len(contacts) : Get(contacts[i], "wa_id", None) = from}
    IN IF hits = {} THEN EmptyDict
       ELSE contacts[CHOOSE i \in hits : \A j \in hits : i <= j]

\* ------------------------------------------------------------- requests
\* One record per running request: where it is (pc), what it was called
\* with, and what it handed back to its caller.
IdleProc ==
    [pc |-> "idle", op |-> "none", account |-> NoId, phone |-> None,
     kind |-> None, conv |-> NoId, resp |-> EmptyDict, cur |-> EmptyCursor,
     result |-> NoId, outcome |-> None, found |-> FALSE,
     seen |-> {}, pending |-> FALSE, response |-> None, bus |-> <<>>,
     mode |-> None, token |-> None]

CanStart(p) == proc[p].pc \in {"idle", "done"}

Init ==
    /\ accounts = InitAccounts
    /\ conversations = <<>>
    /\ messages = <<>>
    /\ proc = [p \in Procs |-> IdleProc]
    /\ issued = [a \in SendAccounts |-> {}]
    /\ templates = <<>>

\* ---- whatsapp.conversation.get_or_create called on its own
\* the search of get_or_create; a hit returns at once
GetOrCreate(p, account_id, phone_number) ==
    /\ CanStart(p)
    /\ LET cid == SearchConversation(account_id, phone_number)
           call == [IdleProc EXCEPT !.op = "get_or_create",
                                    !.account = account_id, !.phone = phone_number]
       IN proc' = [proc EXCEPT ![p] =
            IF cid # NoId
            THEN [call EXCEPT !.pc = "done", !.found = TRUE,
                              !.outcome = "returned",
                              !.result = GetOrCreateResult(cid).val]
            ELSE [call EXCEPT !.pc = "goc_create"]]
    /\ UNCHANGED <<accounts, conversations, messages, issued, templates>>

\* the create of get_or_create; the unique constraint rejects a second row
GetOrCreateInsert(p) ==
    /\ proc[p].pc = "goc_create"
    /\ IF UniqueViolation(proc[p].account, proc[p].phone)
       THEN /\ proc' = [proc EXCEPT ![p].pc = "done",
                                    ![p].outcome = "IntegrityError"]
            /\ UNCHANGED conversations
       ELSE /\ conversations' = Append(conversations,
                    NewConversation(proc[p].account, proc[p].phone))
            /\ proc' = [proc EXCEPT ![p].pc = "done",
                                    ![p].outcome = "returned",
                                    ![p].result =
                                        GetOrCreateResult(Len(conversations) + 1).val]
    /\ UNCHANGED <<accounts, messages, issued, templates>>

\* ---- receive_webhook
\* the request ends: 'OK', or 'Error', 500 from the except clause
Finished(p, c, response) ==
    [c.base EXCEPT !.pc = "done", !.cur = EmptyCursor, !.seen = c.seen,
                   !.phone = None, !.response = response,
                   !.pending = (response # "OK" /\ HasItems(Advance(c.next)))]

\* after an item: on to the next item, or return 'OK'
Continue(p, c) ==
    LET n == Advance(c.next)
    IN IF HasItems(n)
       THEN [c.base EXCEPT !.pc = "wh_item", !.cur = n, !.seen = c.seen]
       ELSE Finished(p, c, "OK")

\* ---- _compute_unread_count
\* a count that leaves out the direction filter
ComputeUnreadCountAnyDirection(table, cid) ==
    Cardinality({m \in 1..Len(table) :
                    /\ table[m].conversation_id = cid
                    /\ table[m].status # "read"})

\* search_count([conversation_id = id, direction = incoming, status != read])
ComputeUnreadCount(table, cid) ==
    Cardinality({m \in 1..Len(table) :
                    /\ table[m].conversation_id = cid
                    /\ table[m].direction = "incoming"
                    /\ table[m].status # "read"})

\* @api.depends('message_ids.status', 'message_ids.direction'): creating a
\* message of conversation cid, or writing its status, recomputes the
\* stored count of cid
Recompute(convs, table, cid) ==
    IF cid \in 1..Len(convs)
    THEN [convs EXCEPT ![cid].unread_count = ComputeUnreadCount(table, cid)]
    ELSE convs

\* ---- _notify_new_message / _notify_status_update
\* what bus.bus._sendone can do
SendoneOutcomes == {"ok", "Exception"}

\* a payload built from the row as it was before the request wrote it
NotificationBeforeWrite(type, m, table) ==
    LET old == IF m \in 1..Len(messages) THEN messages ELSE table
    IN [type |-> type, account_id |-> old[m].account_id, message_id |-> m,
        whatsapp_message_id |-> old[m].whatsapp_message_id,
        status |-> old[m].status, error_message |-> old[m].error_message]

\* the payload handed to _sendone
Notification(type, m, table) ==
    [type |-> type, account_id |-> table[m].account_id, message_id |-> m,
     whatsapp_message_id |-> table[m].whatsapp_message_id,
     status |-> table[m].status, error_message |-> table[m].error_message]

\* a notifier without its try/except
NotifyRaises(sendone) == IF sendone = "ok" THEN "published" ELSE "raised"

\* try: _sendone(...)  except Exception: log
Notify(sendone) == IF sendone = "ok" THEN "published" ELSE "logged"

\* `if record: self._notify_...(record)`, then on to the next item;
\* bus holds what this request has published
AfterItem(p, c, type, m, table, sendone) ==
    IF m = NoId THEN [Continue(p, c) EXCEPT !.result = m]
    ELSE IF Notify(sendone) = "raised" THEN Finished(p, c, "Error500")
    ELSE IF Notify(sendone) = "published"
    THEN [Continue(p, [c EXCEPT !.base.bus =
                @ \o <<Notification(type, m, table)>>]) EXCEPT !.result = m]
    ELSE [Continue(p, c) EXCEPT !.result = m]

\* process_webhook_message once get_or_create has returned cid: reading
\* conversation.id, then create(), which rejects a type outside the Selection
AfterGetOrCreate(p, c, phone, cid, convs) ==
    LET message == Head(c.cur.msgs)
        conversation == GetOrCreateResult(cid)
    IN IF /\ HasIdAttr(conversation)
          /\ Get(message, "type", "text") \in MessageTypeSelection
       THEN /\ Len(messages) < MaxMessages
            /\ messages' = Append(messages,
                    WithContent(
                        IncomingVals(c.cur.account, conversation.val, phone,
                                     Get(message, "type", "text"),
                                     Get(message, "id", None)),
                        DeriveContent(message), DeriveMediaUrl(message)))
            /\ conversations' = Recompute(convs, messages', conversation.val)
            /\ \E sendone \in SendoneOutcomes :
                proc' = [proc EXCEPT ![p] =
                    AfterItem(p, c, "new_message", Len(messages) + 1,
                              messages', sendone)]
       ELSE /\ messages' = messages
            /\ conversations' = convs
            /\ proc' = [proc EXCEPT ![p] = Finished(p, c, "Error500")]

\* the item at the cursor: next is the cursor once the item is consumed
Item(base, cur, seen) ==
    LET message == Head(cur.msgs)
        key == <<cur.account, Get(message, "id", None)>>
    IN IF cur.msgs # <<>>
       THEN [base |-> base, cur |-> cur,
             next |-> [cur EXCEPT !.msgs = Tail(cur.msgs)],
             seen |-> IF Truthy(key[2]) THEN seen \cup {key} ELSE seen]
       ELSE [base |-> base, cur |-> cur,
             next |-> [cur EXCEPT !.stats = Tail(cur.stats)],
             seen |-> seen]

\* one inbound message: contact lookup and the search of get_or_create
MessageStep(p, c) ==
    LET message == Head(c.cur.msgs)
        contact == FindContact(c.cur.contacts, Get(message, "from", None))
        phone   == Get(contact, "wa_id", Get(message, "from", ""))
        cid     == SearchConversation(c.cur.account, phone)
    IN IF cid = NoId
       THEN /\ proc' = [proc EXCEPT ![p] =
                    [c.base EXCEPT !.pc = "wh_goc_create", !.cur = c.cur,
                                    !.seen = c.seen, !.phone = phone]]
            /\ UNCHANGED <<conversations, messages>>
       ELSE AfterGetOrCreate(p, c, phone, cid, conversations)

\* one status event: process_status_update and its notification
StatusStep(p, c) ==
    LET r == ProcessStatusUpdate(c.cur.account, Head(c.cur.stats))
    IN /\ messages' = r[1]
       /\ \E sendone \in SendoneOutcomes :
            proc' = [proc EXCEPT ![p] =
                AfterItem(p, c, "status_update", r[2], r[1], sendone)]
       /\ conversations' =
            IF r[2] = NoId THEN conversations
            ELSE Recompute(conversations, r[1], r[1][r[2]].conversation_id)

ItemStep(p, base, cur, seen) ==
    IF cur.msgs # <<>> THEN MessageStep(p, Item(base, cur, seen))
                       ELSE StatusStep(p, Item(base, cur, seen))

\* POST /whatsapp/webhook arrives: parse, then the first item if any
ReceiveWebhook(p, body) ==
    /\ CanStart(p)
    /\ LET call == [IdleProc EXCEPT !.op = "webhook"]
           cur  == Advance(Cursor(Entries(body.data)))
       IN IF body.parse # "ok"
          THEN /\ proc' = [proc EXCEPT ![p] =
                    [call EXCEPT !.pc = "done", !.response = "Error500",
                                 !.outcome = "unparsed"]]
               /\ UNCHANGED <<conversations, messages>>
          ELSE IF ~HasItems(cur)
          THEN /\ proc' = [proc EXCEPT ![p] =
                    [call EXCEPT !.pc = "done", !.response = "OK"]]
               /\ UNCHANGED <<conversations, messages>>
          ELSE ItemStep(p, call, cur, {})
    /\ UNCHANGED <<accounts, issued, templates>>

\* the next item of a running delivery
WebhookItem(p) ==
    /\ proc[p].pc = "wh_item"
    /\ ItemStep(p, proc[p], proc[p].cur, proc[p].seen)
    /\ UNCHANGED <<accounts, issued, templates>>

\* the create of get_or_create inside process_webhook_message
WebhookInsert(p) ==
    /\ proc[p].pc = "wh_goc_create"
    /\ LET cur == proc[p].cur
           c == [base |-> proc[p], cur |-> cur,
                 next |-> [cur EXCEPT !.msgs = Tail(cur.msgs)],
                 seen |-> proc[p].seen]
       IN IF UniqueViolation(cur.account, proc[p].phone)
          THEN /\ proc' = [proc EXCEPT ![p] =
                    [Finished(p, c, "Error500") EXCEPT !.outcome = "IntegrityError"]]
               /\ UNCHANGED <<conversations, messages>>
          ELSE AfterGetOrCreate(p, c, proc[p].phone, Len(conversations) + 1,
                    Append(conversations,
                           NewConversation(cur.account, proc[p].phone)))
    /\ UNCHANGED <<accounts, issued, templates>>

\* ---- send_text_message / send_template_message
\* What requests.post(...) can yield: a 2xx response with its JSON body, or
\* a RequestException (timeout, transport error, raise_for_status).  The
\* provider never assigns one message id twice under one phone number id.
ProviderResponses(account_id) ==
    {[ok |-> TRUE, data |-> [messages |-> <<[id |-> w]>>]] :
        w \in ProviderIds \ issued[account_id]}
    \cup {[ok |-> TRUE, data |-> d] : d \in {EmptyDict, [messages |-> <<>>]}}
    \cup {[ok |-> FALSE, error |-> e] : e \in RequestErrors}

IssuedBy(resp) ==
    IF resp.ok /\ Get(resp.data, "messages", <<>>) # <<>>
    THEN {resp.data.messages[1].id} ELSE {}

SendsInFlight == Cardinality({q \in Procs : proc[q].pc = "send_record"})

\* the provider call of a send
Send(p, account_id, to, kind, conversation_id, resp) ==
    /\ CanStart(p)
    /\ Len(messages) + SendsInFlight < MaxMessages
    /\ proc' = [proc EXCEPT ![p] =
            [IdleProc EXCEPT !.pc = "send_record", !.op = "send",
                             !.account = account_id, !.phone = to,
                             !.kind = kind, !.conv = conversation_id,
                             !.resp = resp]]
    /\ issued' = [issued EXCEPT ![account_id] = @ \cup IssuedBy(resp)]
    /\ UNCHANGED <<accounts, conversations, messages, templates>>

\* Conversation.send_message: a text in an existing conversation
SendMessage(p, c) ==
    /\ c \in 1..Len(conversations)
    /\ \E resp \in ProviderResponses(conversations[c].account_id) :
        Send(p, conversations[c].account_id, conversations[c].phone_number,
             "text", c, resp)

\* wizard action_send: text or template, no conversation given
ActionSend(p, account_id, phone_number, message_type) ==
    \E resp \in ProviderResponses(account_id) :
        Send(p, account_id, phone_number, message_type, NoId, resp)

\* a send that marks the account disconnected when the provider call fails
AccountsDisconnectedAfterSend(a, resp) ==
    IF resp.ok THEN accounts ELSE [accounts EXCEPT ![a].state = "disconnected"]

\* the account table after a send: neither branch writes an account
AccountsAfterSend(a, resp) == accounts

\* the message row a send logs once the provider call is over
SendRecord(p) ==
    /\ proc[p].pc = "send_record"
    /\ LET r == proc[p]
           msgs == Get(r.resp.data, "messages", <<EmptyDict>>)
           ret == [IdleProc EXCEPT !.pc = "done", !.op = "send"]
       IN IF ~r.resp.ok
          THEN /\ messages' = Append(messages,
                      WithContent(
                          FailedVals(r.account, r.conv, r.phone, r.kind, r.resp.error),
                          SendContent(r.kind), None))
               /\ conversations' = Recompute(conversations, messages', r.conv)
               /\ proc' = [proc EXCEPT ![p] =
                      [ret EXCEPT !.outcome = "returned",
                                  !.result = Len(messages) + 1]]
          ELSE IF msgs = <<>>
          THEN /\ messages' = messages
               /\ conversations' = conversations
               /\ proc' = [proc EXCEPT ![p] = [ret EXCEPT !.outcome = "IndexError"]]
          ELSE /\ messages' = Append(messages,
                      WithContent(
                          SentVals(r.account, r.conv, r.phone, r.kind,
                                   Get(msgs[1], "id", None)),
                          SendContent(r.kind), None))
               /\ conversations' = Recompute(conversations, messages', r.conv)
               /\ proc' = [proc EXCEPT ![p] =
                      [ret EXCEPT !.outcome = "returned",
                                  !.result = Len(messages) + 1]]
    /\ accounts' = AccountsAfterSend(proc[p].account, proc[p].resp)
    /\ UNCHANGED <<issued, templates>>

\* ---- action_test_connection
\* requests.get on the phone number id: a 2xx answer or a RequestException
ConnectionResponses == {[ok |-> TRUE], [ok |-> FALSE]}

\* Who called: an RPC from the form button, whose transaction is rolled
\* back when UserError leaves the method, or code that catches the error.
Callers == {"rpc", "code"}

ActionTestConnection(p, a, resp, caller) ==
    /\ CanStart(p)
    /\ LET ret == [IdleProc EXCEPT !.pc = "done", !.op = "test_connection",
                                   !.account = a]
       IN IF resp.ok
          THEN /\ accounts' = [accounts EXCEPT ![a].state = "connected"]
               /\ proc' = [proc EXCEPT ![p] = [ret EXCEPT !.outcome = "returned"]]
          ELSE /\ accounts' = IF caller = "rpc" THEN accounts
                              ELSE [accounts EXCEPT ![a].state = "disconnected"]
               /\ proc' = [proc EXCEPT ![p] = [ret EXCEPT !.outcome = "UserError"]]
    /\ UNCHANGED <<conversations, messages, issued, templates>>

\* ---- action_sync_templates
\* str.lower() on the provider's template statuses
Lower(x) ==
    CASE x = "APPROVED" -> "approved"
      [] x = "PENDING" -> "pending"
      [] OTHER -> x

ProviderTemplate(name, status) == [name |-> name, status |-> status]

\* requests.get on message_templates: a 2xx JSON body or a RequestException
SyncResponses ==
    {[ok |-> TRUE, data |-> [data |-> l]] :
        l \in {<<>>, <<ProviderTemplate("tpl", "APPROVED")>>,
               <<ProviderTemplate("tpl", "PENDING"),
                 ProviderTemplate("promo", "APPROVED")>>}}
    \cup {[ok |-> TRUE, data |-> EmptyDict], [ok |-> FALSE, data |-> EmptyDict]}

\* search([('account_id','=',a), ('template_name','=',name)], limit=1)
SearchTemplate(table, a, name) ==
    LET hits == {t \in 1..Len(table) :
                    table[t].account_id = a /\ table[t].template_name = name}
    IN IF hits = {} THEN NoId ELSE CHOOSE t \in hits : \A u \in hits : t <= u

TemplateVals(a, template) ==
    [account_id |-> a, template_name |-> Get(template, "name", None),
     status |-> Lower(Get(template, "status", "PENDING"))]

\* the loop over the provider's templates: write the row found, else create
RECURSIVE Upsert(_, _, _)
Upsert(table, a, list) ==
    IF list = <<>> THEN table
    ELSE LET existing == SearchTemplate(table, a, Get(Head(list), "name", None))
             vals == TemplateVals(a, Head(list))
         IN Upsert(IF existing # NoId THEN [table EXCEPT ![existing] = vals]
                   ELSE Append(table, vals),
                   a, Tail(list))

ActionSyncTemplates(p, a, resp) ==
    /\ CanStart(p)
    /\ LET ret == [IdleProc EXCEPT !.pc = "done", !.op = "sync_templates",
                                   !.account = a]
           list == Get(resp.data, "data", <<>>)
       IN IF ~Truthy(accounts[a].waba_id) \/ ~resp.ok
          THEN /\ templates' = templates
               /\ proc' = [proc EXCEPT ![p] = [ret EXCEPT !.outcome = "UserError"]]
          ELSE /\ templates' = Upsert(templates, a, list)
               /\ proc' = [proc EXCEPT ![p] =
                      [ret EXCEPT !.outcome = "returned", !.result = Len(list)]]
    /\ UNCHANGED <<accounts, conversations, messages, issued>>

\* ---- whatsapp.account create / write
\* create(vals): the unique constraint rejects a registered phone number id
CreateAccount(p, pn, token) ==
    /\ CanStart(p)
    /\ Len(accounts) < MaxAccounts
    /\ LET table == Append(accounts, NewAccount(pn, token))
           ret == [IdleProc EXCEPT !.pc = "done", !.op = "create_account"]
       IN IF AccountUniqueViolation(table)
          THEN /\ accounts' = accounts
               /\ proc' = [proc EXCEPT ![p] = [ret EXCEPT !.outcome = "IntegrityError"]]
          ELSE /\ accounts' = table
               /\ proc' = [proc EXCEPT ![p] =
                      [ret EXCEPT !.outcome = "returned", !.result = Len(table)]]
    /\ UNCHANGED <<conversations, messages, issued, templates>>

\* write(vals) on one account, under the same constraint
WriteAccount(p, a, vals) ==
    /\ CanStart(p)
    /\ LET row == [f \in DOMAIN accounts[a] |-> Get(vals, f, accounts[a][f])]
           table == [accounts EXCEPT ![a] = row]
           ret == [IdleProc EXCEPT !.pc = "done", !.op = "write_account"]
       IN IF AccountUniqueViolation(table)
          THEN /\ accounts' = accounts
               /\ proc' = [proc EXCEPT ![p] = [ret EXCEPT !.outcome = "IntegrityError"]]
          ELSE /\ accounts' = table
               /\ proc' = [proc EXCEPT ![p] =
                      [ret EXCEPT !.outcome = "returned", !.result = a]]
    /\ UNCHANGED <<conversations, messages, issued, templates>>

\* ---- verify_webhook
\* GET /whatsapp/webhook: the challenge, 'Forbidden', 403 or 'Bad Request', 400
VerifyWebhook(p, mode, token, challenge) ==
    /\ CanStart(p)
    /\ LET ret == [IdleProc EXCEPT !.pc = "done", !.op = "verify",
                                   !.mode = mode, !.token = token]
       IN proc' = [proc EXCEPT ![p] =
            IF mode = "subscribe" /\ Truthy(token)
            THEN IF SearchAccountByToken(token) # NoId
                 THEN [ret EXCEPT !.response = challenge]
                 ELSE [ret EXCEPT !.response = "Forbidden403"]
            ELSE [ret EXCEPT !.response = "BadRequest400"]]
    /\ UNCHANGED <<accounts, conversations, messages, issued, templates>>

\* ----------------------------------------------------------------- specs
\* Account registry: account configuration and the webhook handshake.
CreatedPhoneNumberIds == {"pn1", "pnX"}
VerifyTokens == {"t1", "tX"}
AccountWrites ==
    {[active |-> FALSE], [active |-> TRUE], [verify_token |-> "t3"],
     [phone_number_id |-> "pn3"]}
HubModes == {None, "subscribe", "unsubscribe"}
HubTokens == {None, "", "t1", "t3", "tX"}
HubChallenges == {"ch1", "ch2"}

NextRegistry ==
    \/ \E p \in {1}, pn \in CreatedPhoneNumberIds, t \in VerifyTokens :
            CreateAccount(p, pn, t)
    \/ \E p \in {1}, a \in 1..Len(accounts), vals \in AccountWrites :
            WriteAccount(p, a, vals)
    \/ \E p \in {1}, mode \in HubModes, token \in HubTokens, ch \in HubChallenges :
            VerifyWebhook(p, mode, token, ch)

SpecRegistry == Init /\ [][NextRegistry]_vars

\* Payload shapes: flattened and enveloped bodies, skipped changes, met by
\* a store of at most two sent messages.
ReadChange == Change("pn1", <<>>, <<>>, <<Status("w1", "read")>>)
DeliveredChange == Change("pn1", <<>>, <<>>, <<Status("w1", "delivered")>>)
FailedChange == Change("pn1", <<>>, <<>>, <<FailedStatus("w1")>>)
InboundChange == Change("pn1", <<Msg("p1", "w1")>>, <<Contact("p1")>>, <<>>)

\* change objects posted as the body itself
FlatChanges ==
    {ReadChange, InboundChange,
     Change("pn1", <<>>, <<>>, <<Status("w1", "read"), Status("w2", "read")>>),
     [field |-> "messages"],
     [value |-> ReadChange.value]}
    \cup SkippedChanges

\* changes that follow a skipped change
AfterSkipped == {FailedChange, InboundChange}

ShapeBodies ==
    {[parse |-> "ok", data |-> d] :
        d \in FlatChanges
              \cup {Envelope(<<DeliveredChange>>)}
              \cup {Envelope(<<sk>>) : sk \in SkippedChanges}
              \cup {Envelope(<<sk, c>>) : sk \in SkippedChanges, c \in AfterSkipped}
              \cup {Envelope(<<FailedChange, sk>>) : sk \in SkippedChanges}}

NextShapes ==
    \/ \E p \in {1}, body \in ShapeBodies : ReceiveWebhook(p, body)
    \/ \E p \in {1} : WebhookItem(p)
    \/ \E p \in {1} : WebhookInsert(p)
    \/ \E p \in {1} : Len(messages) <= 1 /\ ActionSend(p, 1, "p1", "text")
    \/ \E p \in {1} : SendRecord(p)

SpecShapes == Init /\ [][NextShapes]_vars

\* Conversation ledger: concurrent get_or_create calls and deliveries.
LedgerBodies ==
    {[parse |-> "ok", data |-> d] :
        d \in {Envelope(<<c>>) : c \in MessageChanges \cup {MixedChange}}
              \cup {Envelope(<<Change("pn1", <<>>, <<>>, <<Status("w1", "read")>>),
                               Change("pn1", <<Msg("p1", "w1")>>, <<>>, <<>>)>>),
                    Change("pn1", <<Msg("p1", "w1")>>, <<>>, <<>>)}}

NextLedger ==
    \/ \E p \in Procs, a \in SendAccounts, ph \in Phones : GetOrCreate(p, a, ph)
    \/ \E p \in Procs : GetOrCreateInsert(p)
    \/ \E p \in Procs, body \in LedgerBodies : ReceiveWebhook(p, body)
    \/ \E p \in Procs : WebhookItem(p)
    \/ \E p \in Procs : WebhookInsert(p)

SpecLedger == Init /\ [][NextLedger]_vars

\* Message store: sends, status reconciliation and inbound deliveries.
StoreProcs == {1}

StoreSends == {<<1, "p1", "template">>, <<2, "p1", "text">>}

StoreStatuses ==
    {Change("pn1", <<>>, <<>>, <<s>>) :
        s \in {Status("w1", "delivered"), Status("w1", "read"),
               Status("w1", "bogus"), FailedStatus("w1"),
               Status("w2", "delivered")}}
    \cup {Change("pn2", <<>>, <<>>, <<Status("w1", "delivered")>>),
          Change("pn1", <<>>, <<>>, <<Status("w1", "read"), Status("w1", "delivered")>>)}

StoreBodies ==
    {[parse |-> "ok", data |-> d] :
        d \in {Envelope(<<c>>) : c \in StoreStatuses}
              \cup {Envelope(<<Change("pn1", <<Msg("p1", "w1")>>, <<Contact("p1")>>, <<>>)>>)}}
    \cup {[parse |-> "error", data |-> EmptyDict]}

NextStore ==
    \/ \E p \in StoreProcs, body \in StoreBodies : ReceiveWebhook(p, body)
    \/ \E p \in StoreProcs : WebhookItem(p)
    \/ \E p \in StoreProcs : WebhookInsert(p)
    \/ \E p \in StoreProcs, c \in 1..Len(conversations) : SendMessage(p, c)
    \/ \E p \in StoreProcs, s \in StoreSends : ActionSend(p, s[1], s[2], s[3])
    \/ \E p \in StoreProcs : SendRecord(p)

SpecStore == Init /\ [][NextStore]_vars

\* Connectivity: the connectivity check next to the other operations.
AdminBodies ==
    {[parse |-> "ok", data |-> Envelope(<<c>>)] :
        c \in {InboundChange, DeliveredChange,
               Change("pn1", <<>>, <<>>, <<Status("w1", "read"), FailedStatus("w1")>>)}}

\* one account with a business account id and one without
AdminAccounts == {1, 2}

NextAdmin ==
    \/ \E p \in StoreProcs, a \in AdminAccounts, resp \in ConnectionResponses,
          caller \in Callers : ActionTestConnection(p, a, resp, caller)
    \/ \E p \in StoreProcs, a \in AdminAccounts, resp \in SyncResponses :
            ActionSyncTemplates(p, a, resp)
    \/ \E p \in StoreProcs, ch \in HubChallenges :
            VerifyWebhook(p, "subscribe", "t1", ch)
    \/ \E p \in StoreProcs, body \in AdminBodies : ReceiveWebhook(p, body)
    \/ \E p \in StoreProcs : WebhookItem(p)
    \/ \E p \in StoreProcs : WebhookInsert(p)
    \/ \E p \in StoreProcs, s \in StoreSends :
            messages = <<>> /\ ActionSend(p, s[1], s[2], s[3])
    \/ \E p \in StoreProcs : SendRecord(p)

SpecAdmin == Init /\ [][NextAdmin]_vars

\* Inbound messages: deliveries of one message of each type.
InboundBodies ==
    {[parse |-> "ok",
      data |-> Envelope(<<Change(pn, <<m>>, <<Contact(m.from)>>, <<>>)>>)] :
        pn \in {"pn1", "pn2"}, m \in UNION {TypedMessages(ph) : ph \in Phones}}
    \cup {[parse |-> "ok",
           data |-> Envelope(<<Change("pn1", <<>>, <<>>, <<Status("w1", "read")>>),
                              Change("pn1", <<m>>, <<>>, <<>>)>>)] :
            m \in TypedMessages("p1")}

NextInbound ==
    \/ \E p \in StoreProcs, body \in InboundBodies : ReceiveWebhook(p, body)
    \/ \E p \in StoreProcs : WebhookItem(p)
    \/ \E p \in StoreProcs : WebhookInsert(p)

SpecInbound == Init /\ [][NextInbound]_vars

\* Status events: wizard sends and the status events that follow them.
EventBodies == {[parse |-> "ok", data |-> Envelope(<<c>>)] : c \in StoreStatuses}

NextEvents ==
    \/ \E p \in StoreProcs, body \in EventBodies : ReceiveWebhook(p, body)
    \/ \E p \in StoreProcs : WebhookItem(p)
    \/ \E p \in StoreProcs, s \in StoreSends : ActionSend(p, s[1], s[2], s[3])
    \/ \E p \in StoreProcs : SendRecord(p)

SpecEvents == Init /\ [][NextEvents]_vars

\* Status writes: two sends and every shape of status event after them.
LifecycleStatuses ==
    StoreStatuses
    \cup {Change("pn1", <<>>, <<>>, <<s>>) :
            s \in {Status("w2", "sent"), Status("w1", "failed"),
                   [status |-> "delivered"],
                   [id |-> "w1", status |-> "failed", errors |-> <<[code |-> "131"]>>]}}

LifecycleBodies ==
    {[parse |-> "ok", data |-> Envelope(<<c>>)] : c \in LifecycleStatuses}

NextLifecycle ==
    \/ \E p \in StoreProcs, body \in LifecycleBodies : ReceiveWebhook(p, body)
    \/ \E p \in StoreProcs : WebhookItem(p)
    \/ \E p \in StoreProcs, s \in StoreSends :
            Len(messages) <= 1 /\ ActionSend(p, s[1], s[2], s[3])
    \/ \E p \in StoreProcs : SendRecord(p)

SpecLifecycle == Init /\ [][NextLifecycle]_vars

\* Batches: deliveries of several entries, changes and items.
Batch(es) == [entry |-> [i \in 1..Len(es) |-> [changes |-> es[i]]]]

BatchBodies ==
    {[parse |-> "ok", data |-> d] :
        d \in {Batch(<< <<ReadChange>>, <<DeliveredChange, FailedChange>> >>),
               Batch(<< <<Change("pn1", <<>>, <<>>,
                                 <<Status("w1", "read"), Status("w1", "delivered")>>),
                          Change("pn3", <<>>, <<>>, <<Status("w1", "failed")>>),
                          Change("pn2", <<>>, <<>>, <<Status("w1", "read")>>)>>,
                        <<FailedChange>> >>),
               Batch(<< <<DeliveredChange>>, <<MixedChange, ReadChange>> >>),
               Batch(<< <<>>, <<ReadChange>> >>)}}

NextBatch ==
    \/ \E p \in StoreProcs, body \in BatchBodies : ReceiveWebhook(p, body)
    \/ \E p \in StoreProcs : WebhookItem(p)
    \/ \E p \in StoreProcs : WebhookInsert(p)
    \/ \E p \in StoreProcs, s \in StoreSends :
            Len(messages) <= 1 /\ ActionSend(p, s[1], s[2], s[3])
    \/ \E p \in StoreProcs : SendRecord(p)

SpecBatch == Init /\ [][NextBatch]_vars

\* ---- whatsapp.message create
\* models.Model.create called on whatsapp.message (RPC, import): a row with
\* the values given; direction and message_type are Selection values
CreateMessage(p, vals) ==
    /\ CanStart(p)
    /\ vals.account_id \in 1..Len(accounts)
    /\ messages' = Append(messages, vals)
    /\ conversations' = Recompute(conversations, messages', vals.conversation_id)
    /\ proc' = [proc EXCEPT ![p] =
            [IdleProc EXCEPT !.pc = "done", !.op = "create_message",
                             !.outcome = "returned", !.result = Len(messages')]]
    /\ UNCHANGED <<accounts, issued, templates>>

\* Imported history: incoming rows created on the model, then status events.
ImportedRows ==
    {WithContent(IncomingVals(a, NoId, ph, "text", w), <<"hi">>, None) :
        a \in SendAccounts, ph \in Phones, w \in ProviderIds}

NextImport ==
    \/ \E p \in StoreProcs, vals \in ImportedRows :
            Len(messages) <= 1 /\ CreateMessage(p, vals)
    \/ \E p \in StoreProcs, body \in LifecycleBodies : ReceiveWebhook(p, body)
    \/ \E p \in StoreProcs : WebhookItem(p)

SpecImport == Init /\ [][NextImport]_vars

\* Notifications: deliveries of status events and inbound messages after
\* two sends, each publish succeeding or raising.
NotifyBodies ==
    LifecycleBodies
    \cup {[parse |-> "ok", data |-> Envelope(<<c>>)] :
            c \in {Change("pn1", <<>>, <<>>, <<[id |-> "w1"]>>),
                   MixedChange, InboundChange}}

NextNotify ==
    \/ \E p \in StoreProcs, body \in NotifyBodies : ReceiveWebhook(p, body)
    \/ \E p \in StoreProcs : WebhookItem(p)
    \/ \E p \in StoreProcs : WebhookInsert(p)
    \/ \E p \in StoreProcs, s \in StoreSends :
            Len(messages) <= 1 /\ ActionSend(p, s[1], s[2], s[3])
    \/ \E p \in StoreProcs : SendRecord(p)

SpecNotify == Init /\ [][NextNotify]_vars

\* Send against delivery: two workers, one sending while the other takes
\* the provider's status events, which name ids the provider has issued.
IssuedStatuses(a) ==
    {Change(accounts[a].phone_number_id, <<>>, <<>>, <<Status(w, s)>>) :
        w \in issued[a], s \in {"delivered", "read"}}

NextRace ==
    \/ \E p \in Procs, c \in IssuedStatuses(1) :
            ReceiveWebhook(p, [parse |-> "ok", data |-> Envelope(<<c>>)])
    \/ \E p \in Procs, ph \in Phones, kind \in {"text", "template"} :
            Len(messages) + SendsInFlight <= 1 /\ ActionSend(p, 1, ph, kind)
    \/ \E p \in Procs : SendRecord(p)

SpecRace == Init /\ [][NextRace]_vars

\* --------------------------------------------------------------- claims
ConversationsOf(account_id, phone_number) ==
    {c \in 1..Len(conversations) :
        /\ conversations[c].account_id = account_id
        /\ conversations[c].phone_number = phone_number}

MessagesOf(account_id, message_id) ==
    {m \in 1..Len(messages) :
        /\ messages[m].account_id = account_id
        /\ messages[m].whatsapp_message_id = message_id}

\* C1: in every reachable state there is at most one stored conversation
\* per (account, phone number) pair.
C1_OneConversationPerKey ==
    \A i, j \in 1..Len(conversations) :
        (/\ conversations[i].account_id = conversations[j].account_id
         /\ conversations[i].phone_number = conversations[j].phone_number)
        => i = j

\* a second insert of a stored key was attempted and the row count held
C1_Witness ==
    \E p \in Procs :
        /\ proc[p].outcome = "IntegrityError"
        /\ Len(conversations) >= 1

\* C2: two get_or_create calls for one key that both look up before either
\* inserts both return, and return the same conversation id.
C2_ConcurrentCallsBothReturn ==
    \A p, q \in Procs :
        (/\ p # q
         /\ proc[p].op = "get_or_create" /\ proc[q].op = "get_or_create"
         /\ proc[p].pc = "done" /\ proc[q].pc = "done"
         /\ proc[p].account = proc[q].account /\ proc[p].phone = proc[q].phone
         /\ ~proc[p].found /\ ~proc[q].found)
        => /\ proc[p].outcome = "returned"
           /\ proc[q].outcome = "returned"
           /\ proc[p].result = proc[q].result

\* C3: a get_or_create call that returns, returns the id of a conversation
\* of its key; a call for a key that is already stored returns at once and
\* adds no row; and it returns the id every earlier call for the key returned.
C3_Step ==
    \A p \in Procs :
        (/\ proc'[p] # proc[p]
         /\ proc'[p].op = "get_or_create")
        => LET a == proc'[p].account
               ph == proc'[p].phone
               r == proc'[p]
           IN /\ (r.pc = "done" /\ r.outcome = "returned") =>
                    /\ r.result \in 1..Len(conversations')
                    /\ conversations'[r.result].account_id = a
                    /\ conversations'[r.result].phone_number = ph
                    /\ \A q \in Procs :
                        (/\ proc[q].op = "get_or_create"
                         /\ proc[q].pc = "done"
                         /\ proc[q].outcome = "returned"
                         /\ proc[q].account = a /\ proc[q].phone = ph)
                        => r.result = proc[q].result
              /\ (CanStart(p) /\ ConversationsOf(a, ph) # {}) =>
                    /\ r.pc = "done" /\ r.outcome = "returned"
                    /\ conversations' = conversations

C3_SequentialCallsSameId == [][C3_Step]_vars

\* one call created the conversation, a later one found it
C3_Witness ==
    \E p, q \in Procs :
        /\ p # q
        /\ proc[p].op = "get_or_create" /\ proc[q].op = "get_or_create"
        /\ proc[p].pc = "done" /\ proc[q].pc = "done"
        /\ proc[p].account = proc[q].account /\ proc[p].phone = proc[q].phone
        /\ proc[p].outcome = "returned" /\ ~proc[p].found
        /\ proc[q].outcome = "returned" /\ proc[q].found

DeliveredBody(a, w) ==
    [parse |-> "ok",
     data |-> Envelope(<<Change(accounts[a].phone_number_id, <<>>, <<>>,
                                <<Status(w, "delivered")>>)>>)]

\* C4: a status event {id: P, status: delivered} for the account of an
\* outgoing message M carrying provider id P sets M to delivered and
\* leaves the number of message rows unchanged.
C4_Step ==
    \A a \in SendAccounts, w \in ProviderIds, m \in 1..Len(messages) :
        (/\ messages[m].direction = "outgoing"
         /\ messages[m].account_id = a
         /\ messages[m].whatsapp_message_id = w
         /\ \E p \in Procs : ReceiveWebhook(p, DeliveredBody(a, w)))
        => /\ Len(messages') = Len(messages)
           /\ messages'[m].status = "delivered"

C4_SentThenDelivered == [][C4_Step]_vars

C4_Witness ==
    \E m \in 1..Len(messages), p \in Procs :
        /\ messages[m].direction = "outgoing"
        /\ messages[m].message_type = "text"
        /\ messages[m].whatsapp_message_id \in ProviderIds
        /\ messages[m].status = "delivered"
        /\ proc[p].op = "webhook" /\ proc[p].pc = "done" /\ proc[p].result = m

\* C5: an inbound message (account, provider id) delivered more than once
\* leaves exactly one stored message row for that provider id.
C5_DuplicateDeliveryOneRow ==
    \A p, q \in Procs :
        (/\ p # q
         /\ proc[p].op = "webhook" /\ proc[q].op = "webhook"
         /\ proc[p].pc = "done" /\ proc[q].pc = "done")
        => \A k \in proc[p].seen \cap proc[q].seen :
                Cardinality(MessagesOf(k[1], k[2])) = 1

Rank(s) ==
    IF s = "pending" THEN 0 ELSE IF s = "sent" THEN 1
    ELSE IF s = "delivered" THEN 2 ELSE 3

Forward(s, t) ==
    \/ s = t
    \/ t = "failed" /\ s \in {"pending", "sent"}
    \/ s # "failed" /\ t # "failed" /\ Rank(s) < Rank(t)

\* C7: no step moves a message's status backwards in the order
\* pending, sent, delivered, read; failed is entered only from pending or sent.
C7_StatusMonotonic ==
    [][\A m \in 1..Len(messages) :
            Forward(messages[m].status, messages'[m].status)]_vars

\* C8: a delivery whose body parsed returns 200 OK and leaves no item of
\* the batch unprocessed, whatever happened to one of its items.
C8_ItemFailureIsolated ==
    \A p \in Procs :
        (proc[p].op = "webhook" /\ proc[p].pc = "done"
            /\ proc[p].outcome # "unparsed")
        => (proc[p].response = "OK" /\ ~proc[p].pending)

InboundBody(a, ph) ==
    [parse |-> "ok",
     data |-> Envelope(<<Change(accounts[a].phone_number_id,
                                <<Msg(ph, "w1")>>, <<Contact(ph)>>, <<>>)>>)]

\* C9: process_webhook_message, for an inbound message of a resolved
\* account, stores exactly one new message (incoming, delivered, the
\* sender's phone, the conversation of (account, phone)) and returns it.
C9_Step ==
    \A p \in Procs, a \in SendAccounts, ph \in Phones :
        (\/ (ReceiveWebhook(p, InboundBody(a, ph))
                /\ proc'[p].pc # "wh_goc_create")
         \/ (WebhookInsert(p) /\ proc[p].cur.account = a /\ proc[p].phone = ph))
        => /\ Len(messages') = Len(messages) + 1
           /\ SubSeq(messages', 1, Len(messages)) = messages
           /\ LET row == messages'[Len(messages')]
              IN /\ row.direction = "incoming"
                 /\ row.status = "delivered"
                 /\ row.account_id = a
                 /\ row.phone_number = ph
                 /\ row.conversation_id \in ConversationsOf(a, ph)'
           /\ proc'[p].result = Len(messages')

C9_InboundStored == [][C9_Step]_vars

\* C10: a send whose provider call fails returns normally and adds exactly
\* one row: outgoing, failed, with a non-empty error detail.
C10_Step ==
    \A p \in Procs :
        (/\ proc[p].pc = "send_record"
         /\ proc'[p] # proc[p]
         /\ ~proc[p].resp.ok)
        => /\ Len(messages') = Len(messages) + 1
           /\ SubSeq(messages', 1, Len(messages)) = messages
           /\ LET row == messages'[Len(messages')]
              IN /\ row.direction = "outgoing"
                 /\ row.status = "failed"
                 /\ row.message_type = proc[p].kind
                 /\ Truthy(row.error_message)
           /\ proc'[p].pc = "done"
           /\ proc'[p].outcome = "returned"
           /\ proc'[p].result = Len(messages')

C10_FailedSendRecorded == [][C10_Step]_vars

C10_Witness ==
    \E p \in Procs, m \in 1..Len(messages) :
        /\ proc[p].op = "send" /\ proc[p].pc = "done"
        /\ proc[p].outcome = "returned" /\ proc[p].result = m
        /\ messages[m].status = "failed"
        /\ messages[m].message_type = "template"

\* C11: every send adds exactly one message row whatever the provider
\* answers; when the provider accepted the send and assigned an id, the row
\* has status sent and carries that id.
C11_Step ==
    \A p \in Procs :
        (/\ proc[p].pc = "send_record"
         /\ proc'[p] # proc[p])
        => /\ Len(messages') = Len(messages) + 1
           /\ SubSeq(messages', 1, Len(messages)) = messages
           /\ (proc[p].resp.ok /\ IssuedBy(proc[p].resp) # {}) =>
                /\ messages'[Len(messages')].status = "sent"
                /\ messages'[Len(messages')].whatsapp_message_id
                        \in IssuedBy(proc[p].resp)

C11_OneRowPerSend == [][C11_Step]_vars

\* C12: every stored message references a conversation of its own
\* (account, phone number).
C12_MessageHasConversation ==
    \A m \in 1..Len(messages) :
        messages[m].conversation_id
            \in ConversationsOf(messages[m].account_id, messages[m].phone_number)

StatusBody(c) == [parse |-> "ok", data |-> Envelope(<<c>>)]

\* C13: a status event whose provider id no stored message of the resolved
\* account carries leaves messages and conversations unchanged, returns no
\* record and raises nothing.
C13_Step ==
    \A p \in StoreProcs, c \in StoreStatuses :
        LET a == SearchAccount(c.value.metadata.phone_number_id)
            s == c.value.statuses[1]
        IN (/\ Len(c.value.statuses) = 1
            /\ MessagesOf(a, s.id) = {}
            /\ ReceiveWebhook(p, StatusBody(c)))
           => /\ messages' = messages
              /\ conversations' = conversations
              /\ proc'[p].result = NoId
              /\ proc'[p].outcome = None
              /\ proc'[p].response = "OK"

C13_UnknownIdNoOp == [][C13_Step]_vars

\* a status event found no record while other messages are stored
C13_Witness ==
    \E p \in Procs :
        /\ proc[p].op = "webhook" /\ proc[p].pc = "done"
        /\ proc[p].response = "OK" /\ proc[p].result = NoId
        /\ Len(messages) >= 1

\* what C19 promises of the step that handled the status event at cur
C19_After(p, cur) ==
    LET r == ProcessStatusUpdate(cur.account, Head(cur.stats))
        n == Advance([cur EXCEPT !.stats = Tail(cur.stats)])
    IN /\ messages' = r[1]
       /\ proc'[p].result = r[2]
       /\ IF HasItems(n)
          THEN proc'[p].pc = "wh_item" /\ proc'[p].cur = n
          ELSE proc'[p].pc = "done" /\ proc'[p].response = "OK"

\* the status event at cur matches a stored message, so a notification is due
C19_Due(cur) ==
    /\ HasItems(cur) /\ cur.msgs = <<>>
    /\ ProcessStatusUpdate(cur.account, Head(cur.stats))[2] # NoId

\* C19: when a status event matched a message and its notification was not
\* published, the status change is stored all the same, the request goes on
\* to the next item and ends with "OK".
C19_Step ==
    \A p \in StoreProcs :
        /\ (/\ proc[p].pc = "wh_item" /\ C19_Due(proc[p].cur)
            /\ WebhookItem(p)
            /\ proc'[p].bus = proc[p].bus)
           => C19_After(p, proc[p].cur)
        /\ \A body \in EventBodies :
            LET cur == Advance(Cursor(Entries(body.data)))
            IN (/\ CanStart(p) /\ proc'[p].bus = <<>>
                /\ C19_Due(cur)
                /\ ReceiveWebhook(p, body))
               => C19_After(p, cur)

C19_NotifyFailureSwallowed == [][C19_Step]_vars

\* a request ended "OK" with a changed message and a lost notification,
\* after an earlier item of the same request was published
C19_Witness ==
    \E p \in Procs :
        /\ proc[p].op = "webhook" /\ proc[p].pc = "done"
        /\ proc[p].response = "OK" /\ proc[p].result # NoId
        /\ Len(proc[p].bus) = 1
        /\ proc[p].bus[1].status = "read"
        /\ messages[proc[p].result].status = "delivered"

JsonBody(d) == [parse |-> "ok", data |-> d]

\* C14: a POST whose body is a change object itself does what the POST of
\* that change in an entry/changes envelope does: same store, same
\* notifications, same response.
C14_Step ==
    \A p \in Procs, c \in FlatChanges \cup {DeliveredChange, FailedChange} :
        ReceiveWebhook(p, JsonBody(c)) <=> ReceiveWebhook(p, JsonBody(Envelope(<<c>>)))

C16_Step ==
    \A p \in Procs, sk \in SkippedChanges :
        /\ ReceiveWebhook(p, JsonBody(Envelope(<<sk>>)))
            => /\ conversations' = conversations
               /\ messages' = messages
               /\ proc'[p].pc = "done" /\ proc'[p].response = "OK"
               /\ proc'[p].bus = <<>>
        /\ \A c \in AfterSkipped :
            ReceiveWebhook(p, JsonBody(Envelope(<<sk, c>>)))
                <=> ReceiveWebhook(p, JsonBody(Envelope(<<c>>)))
        /\ ReceiveWebhook(p, JsonBody(Envelope(<<FailedChange, sk>>)))
            <=> ReceiveWebhook(p, JsonBody(Envelope(<<FailedChange>>)))
        /\ (\E q \in {1, 2} :
                ReceiveWebhook(p, JsonBody(Envelope(
                    IF q = 1 THEN <<sk, FailedChange>> ELSE <<FailedChange, sk>>))))
            => /\ messages' = ProcessStatusUpdate(1, FailedStatus("w1"))[1]
               /\ proc'[p].pc = "done" /\ proc'[p].response = "OK"

C16_SkippedChange == [][C16_Step]_vars

\* a status failed, which only payloads with a skipped change carry, was
\* applied and the request ended "OK"
C16_Witness ==
    \E p \in Procs, m \in 1..Len(messages) :
        /\ proc[p].op = "webhook" /\ proc[p].pc = "done"
        /\ proc[p].response = "OK" /\ proc[p].result = m
        /\ messages[m].whatsapp_message_id = "w1"
        /\ messages[m].status = "failed" /\ messages[m].error_message = "e1"
        /\ conversations = <<>>

\* the token is the verify token of an active account
TokenOfActive(token) ==
    \E a \in 1..Len(accounts) :
        accounts[a].active /\ accounts[a].verify_token = token

\* C15 as stated: the challenge exactly when mode is subscribe and the token
\* is an active account's; 403 when mode and token are both supplied but
\* unmatched; 400 otherwise; no stored state changes.
C15_StepAsStated ==
    \A p \in Procs, mode \in HubModes, token \in HubTokens, ch \in HubChallenges :
        VerifyWebhook(p, mode, token, ch)
        => /\ UNCHANGED <<accounts, conversations, messages, templates>>
           /\ proc'[p].response =
                IF mode = "subscribe" /\ TokenOfActive(token) THEN ch
                ELSE IF mode # None /\ token # None THEN "Forbidden403"
                ELSE "BadRequest400"

C15_HandshakeAsStated == [][C15_StepAsStated]_vars

\* C15 amended: the challenge exactly when mode is subscribe and the token
\* is an active account's; 403 when mode is subscribe and a non-empty token
\* is no active account's; 400 otherwise (mode missing or not subscribe,
\* token missing or empty); no stored state changes.
C15_Step ==
    \A p \in Procs, mode \in HubModes, token \in HubTokens, ch \in HubChallenges :
        VerifyWebhook(p, mode, token, ch)
        => /\ UNCHANGED <<accounts, conversations, messages, templates>>
           /\ proc'[p].response =
                IF mode = "subscribe" /\ TokenOfActive(token) THEN ch
                ELSE IF mode = "subscribe" /\ token # None /\ token # ""
                     THEN "Forbidden403"
                ELSE "BadRequest400"

C15_Handshake == [][C15_Step]_vars

\* a handshake with another mode and an active account's token got 400
C15_Witness ==
    \E p \in Procs :
        /\ proc[p].op = "verify" /\ proc[p].pc = "done"
        /\ proc[p].mode = "unsubscribe" /\ TokenOfActive(proc[p].token)
        /\ proc[p].response = "BadRequest400"

\* C17: no two accounts share a phone number id, and a create with a
\* registered phone number id fails and leaves the accounts as they were.
C17_Step ==
    /\ \A a, b \in 1..Len(accounts') :
        accounts'[a].phone_number_id = accounts'[b].phone_number_id => a = b
    /\ \A p \in Procs, pn \in CreatedPhoneNumberIds, t \in VerifyTokens :
        (/\ \E a \in 1..Len(accounts) : accounts[a].phone_number_id = pn
         /\ CreateAccount(p, pn, t))
        => /\ accounts' = accounts
           /\ proc'[p].outcome = "IntegrityError"

C17_PhoneNumberIdUnique == [][C17_Step]_vars

\* a create was rejected while the table had room
C17_Witness ==
    \E p \in Procs :
        /\ proc[p].op = "create_account" /\ proc[p].pc = "done"
        /\ proc[p].outcome = "IntegrityError"
        /\ Len(accounts) < MaxAccounts

\* C18: no two active accounts share a verify token.
C18_VerifyTokenUnique ==
    \A a, b \in 1..Len(accounts) :
        (/\ accounts[a].active /\ accounts[b].active
         /\ accounts[a].verify_token = accounts[b].verify_token)
        => a = b

\* content as C21 states it: one placeholder for every other type
C21_Content(message_data) ==
    LET message_type == Get(message_data, "type", "text")
        part == Get(message_data, message_type, EmptyDict)
    IN CASE message_type = "text" -> <<Get(part, "body", "")>>
         [] message_type = "image" -> <<Get(part, "caption", "[Image]")>>
         [] message_type = "video" -> <<Get(part, "caption", "[Video]")>>
         [] message_type = "document" -> <<Get(part, "filename", "[Document]")>>
         [] message_type = "audio" -> <<"[Audio Message]">>
         [] OTHER -> <<"[", Title(message_type), " message]">>

\* the step of request p that ends the processing of inbound message m
C21_Processed(p, m) ==
    \/ /\ proc[p].pc = "wh_goc_create" /\ Head(proc[p].cur.msgs) = m
       /\ WebhookInsert(p)
    \/ /\ proc[p].pc = "wh_item" /\ proc[p].cur.msgs # <<>>
       /\ Head(proc[p].cur.msgs) = m
       /\ WebhookItem(p) /\ proc'[p].pc # "wh_goc_create"
    \/ \E body \in InboundBodies :
        LET cur == Advance(Cursor(Entries(body.data)))
        IN /\ cur.msgs # <<>> /\ Head(cur.msgs) = m
           /\ ReceiveWebhook(p, body) /\ proc'[p].pc # "wh_goc_create"

\* C21: an inbound message of any type is processed without failing and
\* stored with the content and media reference its type gives.
C21_Step ==
    \A p \in StoreProcs, m \in UNION {TypedMessages(ph) : ph \in Phones} :
        C21_Processed(p, m)
        => /\ proc'[p].response # "Error500"
           /\ Len(messages') = Len(messages) + 1
           /\ LET row == messages'[Len(messages')]
              IN /\ row.direction = "incoming"
                 /\ row.content = C21_Content(m)
                 /\ row.media_url =
                        IF Get(m, "type", "text")
                                \in {"image", "video", "document", "audio"}
                        THEN Get(Get(m, m.type, EmptyDict), "id", None)
                        ELSE None

C21_ContentByType == [][C21_Step]_vars

\* C22: a connectivity state changes only in a step of
\* action_test_connection; webhook verification and delivery, sends and
\* template sync leave every account's state and active flag as they were.
C22_AccountsKept ==
    /\ Len(accounts') = Len(accounts)
    /\ \A a \in 1..Len(accounts) :
        /\ accounts'[a].state = accounts[a].state
        /\ accounts'[a].active = accounts[a].active

C22_Step ==
    /\ (\E a \in 1..Len(accounts) : accounts'[a].state # accounts[a].state)
        => \E p \in StoreProcs, a \in AdminAccounts,
              resp \in ConnectionResponses, caller \in Callers :
                ActionTestConnection(p, a, resp, caller)
    /\ \/ C22_AccountsKept
       \/ ~(\/ \E p \in StoreProcs :
                    WebhookItem(p) \/ WebhookInsert(p) \/ SendRecord(p)
            \/ \E p \in StoreProcs, ch \in HubChallenges :
                    VerifyWebhook(p, "subscribe", "t1", ch)
            \/ \E p \in StoreProcs, body \in AdminBodies : ReceiveWebhook(p, body)
            \/ \E p \in StoreProcs, s \in StoreSends :
                    ActionSend(p, s[1], s[2], s[3])
            \/ \E p \in StoreProcs, a \in AdminAccounts, resp \in SyncResponses :
                    ActionSyncTemplates(p, a, resp))

C22_StateOnlyByCheck == [][C22_Step]_vars

\* a failed send and a template sync have run on a connected account
C22_Witness ==
    \E p \in StoreProcs, m \in 1..Len(messages), t \in 1..Len(templates) :
        /\ messages[m].status = "failed"
        /\ accounts[messages[m].account_id].state = "connected"
        /\ templates[t].account_id = messages[m].account_id
        /\ proc[p].op = "webhook" /\ proc[p].pc = "done"

\* the status event at cur is a recognized one and matches a stored message
C23_Matched(cur) ==
    /\ HasItems(cur) /\ cur.msgs = <<>>
    /\ Get(Head(cur.stats), "status", None) \in {"sent", "delivered", "read", "failed"}
    /\ Truthy(Get(Head(cur.stats), "id", None))
    /\ SearchMessage(Head(cur.stats).id, cur.account) # NoId

\* what C23 promises of the step that handled the status event at cur
C23_Overwritten(cur) ==
    messages'[SearchMessage(Head(cur.stats).id, cur.account)].status
        = Head(cur.stats).status

\* C23: a recognized status event that matches a message overwrites the
\* stored status whatever it was, for the first event of a delivery and for
\* every later one, so the last event of a payload decides and a delivered
\* after a read sets the message back to delivered.
C23_Step ==
    \A p \in StoreProcs :
        /\ (/\ proc[p].pc = "wh_item" /\ C23_Matched(proc[p].cur)
            /\ WebhookItem(p))
           => C23_Overwritten(proc[p].cur)
        /\ \A body \in LifecycleBodies :
            LET cur == Advance(Cursor(Entries(body.data)))
            IN (/\ CanStart(p) /\ C23_Matched(cur)
                /\ ReceiveWebhook(p, body))
               => C23_Overwritten(cur)

C23_Overwrite == [][C23_Step]_vars

\* a delivery of read then delivered has ended and published both, and the
\* message is delivered
C23_Witness ==
    \E p \in StoreProcs :
        /\ proc[p].op = "webhook" /\ proc[p].pc = "done"
        /\ Len(proc[p].bus) = 2
        /\ proc[p].bus[1].status = "read" /\ proc[p].bus[2].status = "delivered"
        /\ proc[p].bus[1].message_id = proc[p].bus[2].message_id
        /\ messages[proc[p].bus[2].message_id].status = "delivered"

\* C24: a status event processed after the provider accepted a send and
\* before the send stored its row is not lost: once the send and the
\* delivery have both ended, the message does not still have the status
\* the send gave it.  The only id issued is the row's, so the delivery that
\* found no record was for that id and came before the row.
C24_EventNotLost ==
    \A p, q \in Procs, m \in 1..Len(messages) :
        (/\ proc[p].op = "send" /\ proc[p].pc = "done" /\ proc[p].result = m
         /\ issued[messages[m].account_id] = {messages[m].whatsapp_message_id}
         /\ proc[q].op = "webhook" /\ proc[q].pc = "done"
         /\ proc[q].response = "OK" /\ proc[q].result = NoId)
        => messages[m].status # "sent"

RECURSIVE C25_Concat(_)
C25_Concat(ss) == IF ss = <<>> THEN <<>> ELSE Head(ss) \o C25_Concat(Tail(ss))

C25_Items(account, kind, items) ==
    [i \in 1..Len(items) |-> [account |-> account, kind |-> kind, item |-> items[i]]]

\* the events of one change in payload order, none for a change not routed
C25_OfChange(change) ==
    LET value == Get(change, "value", EmptyDict)
        pnid  == Get(Get(value, "metadata", EmptyDict), "phone_number_id", None)
        a     == SearchAccount(pnid)
    IN IF Get(change, "field", None) # "messages" \/ ~Truthy(pnid) \/ a = NoId
       THEN <<>>
       ELSE C25_Items(a, "message", Get(value, "messages", <<>>))
            \o C25_Items(a, "status", Get(value, "statuses", <<>>))

C25_OfChanges(changes) ==
    C25_Concat([i \in 1..Len(changes) |-> C25_OfChange(changes[i])])

C25_OfEntries(entries) ==
    C25_Concat([i \in 1..Len(entries) |->
                    C25_OfChanges(Get(entries[i], "changes", <<>>))])

\* the events a running delivery has still to apply
C25_Remaining(cur) ==
    C25_Items(cur.account, "message", cur.msgs)
    \o C25_Items(cur.account, "status", cur.stats)
    \o C25_OfChanges(cur.changes) \o C25_OfEntries(cur.entries)

\* a step of delivery p whose events still to apply were F
C25_After(p, F) ==
    IF F = <<>>
    THEN proc'[p].pc = "done" /\ proc'[p].response = "OK" /\ messages' = messages
    ELSE /\ F[1].kind = "status"
            => messages' = ProcessStatusUpdate(F[1].account, F[1].item)[1]
         /\ proc'[p].pc = "wh_item" => C25_Remaining(proc'[p].cur) = Tail(F)
         /\ proc'[p].pc = "wh_goc_create" => C25_Remaining(proc'[p].cur) = F
         /\ (proc'[p].pc = "done" /\ proc'[p].response = "OK") => Tail(F) = <<>>

\* C25: every step of a delivery applies the first event not yet applied,
\* in the order entries, changes, messages[] then statuses[] of the payload,
\* to the state the step before left, and the events left are the rest in
\* that order.
C25_Step ==
    \A p \in StoreProcs :
        /\ (proc[p].pc = "wh_item" /\ WebhookItem(p))
            => C25_After(p, C25_Remaining(proc[p].cur))
        /\ (proc[p].pc = "wh_goc_create" /\ WebhookInsert(p))
            => C25_After(p, C25_Remaining(proc[p].cur))
        /\ \A body \in BatchBodies :
            (CanStart(p) /\ ReceiveWebhook(p, body))
            => C25_After(p, C25_OfEntries(Entries(body.data)))

C25_PayloadOrder == [][C25_Step]_vars

\* a delivery of three status events over two entries has ended: read,
\* then delivered, then failed for one message, which is failed
C25_Witness ==
    \E p \in StoreProcs :
        /\ proc[p].op = "webhook" /\ proc[p].pc = "done" /\ proc[p].response = "OK"
        /\ Len(proc[p].bus) = 3
        /\ proc[p].bus[1].status = "read" /\ proc[p].bus[2].status = "delivered"
        /\ proc[p].bus[3].status = "failed"
        /\ messages[proc[p].bus[3].message_id].status = "failed"
        /\ messages[proc[p].bus[3].message_id].error_message = "e1"

\* every message of an account other than a is as it was
C26_OthersKept(a) ==
    /\ Len(messages') = Len(messages)
    /\ \A m \in 1..Len(messages) :
        messages[m].account_id # a => messages'[m] = messages[m]

\* C26: a step that handles a status event routed to account a leaves every
\* message of every other account unchanged, also one with the event's id.
C26_Step ==
    \A p \in StoreProcs :
        /\ (proc[p].pc = "wh_item" /\ WebhookItem(p))
            => C26_OthersKept(proc[p].cur.account)
        /\ \A body \in LifecycleBodies :
            (CanStart(p) /\ ReceiveWebhook(p, body))
            => C26_OthersKept(Advance(Cursor(Entries(body.data))).account)

C26_AccountIsolation == [][C26_Step]_vars

\* two accounts hold a message with one provider id, the later row is the
\* first account's, and an event routed to the second account has changed
\* the second account's message only
C26_Witness ==
    \E p \in StoreProcs, m, n \in 1..Len(messages) :
        /\ m < n
        /\ messages[m].account_id = 2 /\ messages[n].account_id = 1
        /\ messages[m].whatsapp_message_id = messages[n].whatsapp_message_id
        /\ messages[m].whatsapp_message_id \in ProviderIds
        /\ messages[m].status = "delivered" /\ messages[n].status = "sent"
        /\ proc[p].op = "webhook" /\ proc[p].pc = "done" /\ proc[p].result = m

\* C27: a step that handles a status event leaves the status and the error
\* detail of every stored incoming message unchanged, also when the event's
\* id is that message's provider id.
C27_Step ==
    \A p \in StoreProcs :
        (proc'[p].op = "webhook" /\ proc'[p] # proc[p])
        => \A m \in 1..Len(messages) :
            messages[m].direction = "incoming"
            => /\ messages'[m].status = messages[m].status
               /\ messages'[m].error_message = messages[m].error_message

C27_IncomingUntouched == [][C27_Step]_vars

\* the status event at cur matches a stored message
C28_Match(cur) ==
    IF HasItems(cur) /\ cur.msgs = <<>>
           /\ Truthy(Get(Head(cur.stats), "id", None))
    THEN SearchMessage(Head(cur.stats).id, cur.account)
    ELSE NoId

C28_Recognized == {"sent", "delivered", "read", "failed"}

\* what C28 promises of the step of p that handled the event at cur
C28_NoOp(p, cur) ==
    (/\ C28_Match(cur) # NoId
     /\ Truthy(Get(Head(cur.stats), "status", None))
     /\ Head(cur.stats).status \notin C28_Recognized)
    => /\ messages' = messages
       /\ proc'[p].outcome = None
       /\ proc'[p].pc = "done" => proc'[p].response = "OK"

\* C28: a status event with a status string other than sent, delivered,
\* read, failed that matches a message leaves every message as it was, and
\* the delivery goes on without an error.
C28_Step ==
    \A p \in StoreProcs :
        /\ (proc[p].pc = "wh_item" /\ WebhookItem(p)) => C28_NoOp(p, proc[p].cur)
        /\ \A body \in LifecycleBodies :
            (CanStart(p) /\ ReceiveWebhook(p, body))
            => C28_NoOp(p, Advance(Cursor(Entries(body.data))))

C28_UnrecognizedIgnored == [][C28_Step]_vars

\* a delivery has matched the message with id w1 and left it sent: the
\* events for w1 are delivered, read, failed and the unrecognized one
C28_Witness ==
    \E p \in StoreProcs :
        /\ proc[p].op = "webhook" /\ proc[p].pc = "done" /\ proc[p].response = "OK"
        /\ proc[p].result # NoId
        /\ messages[proc[p].result].whatsapp_message_id = "w1"
        /\ messages[proc[p].result].status = "sent"
        /\ Len(proc[p].bus) = 1 /\ proc[p].bus[1].status = "sent"

\* C29 as stated, for the step that handled the status event at cur: the
\* detail becomes the first error's message text, which an error without a
\* message key does not have
C29_DetailAsStated(cur) ==
    LET m == C28_Match(cur)
        status == Get(Head(cur.stats), "status", None)
        errors == Get(Head(cur.stats), "errors", <<>>)
    IN m # NoId
       => IF status = "failed" /\ errors # <<>>
          THEN messages'[m].error_message = Get(errors[1], "message", None)
          ELSE messages'[m].error_message = messages[m].error_message

C29_StepAsStated ==
    \A p \in StoreProcs :
        /\ (proc[p].pc = "wh_item" /\ WebhookItem(p))
            => C29_DetailAsStated(proc[p].cur)
        /\ \A body \in LifecycleBodies :
            (CanStart(p) /\ ReceiveWebhook(p, body))
            => C29_DetailAsStated(Advance(Cursor(Entries(body.data))))

C29_FirstErrorTextAsStated == [][C29_StepAsStated]_vars

\* what the step that handled the status event at cur does to the detail
C29_Detail(cur) ==
    LET m == C28_Match(cur)
        status == Get(Head(cur.stats), "status", None)
        errors == Get(Head(cur.stats), "errors", <<>>)
    IN m # NoId
       => IF status = "failed" /\ errors # <<>>
          THEN messages'[m].error_message =
                    IF "message" \in DOMAIN errors[1]
                    THEN errors[1].message ELSE "Unknown error"
          ELSE messages'[m].error_message = messages[m].error_message

\* C29: a failed event with errors that matches a message sets the error
\* detail to the message text of the first error listed, and to the text
\* "Unknown error" when that error carries no message; an event with
\* another status, or a failed one without errors, leaves the detail as it
\* was.
C29_Step ==
    \A p \in StoreProcs :
        /\ (proc[p].pc = "wh_item" /\ WebhookItem(p)) => C29_Detail(proc[p].cur)
        /\ \A body \in LifecycleBodies :
            (CanStart(p) /\ ReceiveWebhook(p, body))
            => C29_Detail(Advance(Cursor(Entries(body.data))))

C29_FirstErrorText == [][C29_Step]_vars

\* a message that failed with two errors listed, and was read in a later
\* delivery, carries the first error's text
C29_Witness ==
    \E p \in StoreProcs :
        /\ proc[p].op = "webhook" /\ proc[p].pc = "done"
        /\ proc[p].result # NoId
        /\ messages[proc[p].result].status = "read"
        /\ messages[proc[p].result].error_message = "e1"

\* C30: the row a failed send records has status failed and no provider
\* message id, and no step changes the status or the error detail of such a
\* row: no status event matches it, with or without an id of its own.
C30_Step ==
    /\ \A p \in StoreProcs :
        (proc[p].pc = "send_record" /\ ~proc[p].resp.ok /\ proc'[p] # proc[p])
        => /\ Len(messages') = Len(messages) + 1
           /\ messages'[Len(messages')].status = "failed"
           /\ messages'[Len(messages')].whatsapp_message_id = None
    /\ \A m \in 1..Len(messages) :
        (messages[m].status = "failed" /\ messages[m].whatsapp_message_id = None)
        => /\ Len(messages') >= Len(messages)
           /\ messages'[m].status = "failed"
           /\ messages'[m].whatsapp_message_id = None
           /\ messages'[m].error_message = messages[m].error_message

C30_FailedSendStaysFailed == [][C30_Step]_vars

\* after a failed send and an accepted one of the same account, a delivery
\* matched the accepted message and the failed row is as the send left it
C30_Witness ==
    \E p \in StoreProcs, m, n \in 1..Len(messages) :
        /\ messages[m].status = "failed" /\ messages[m].whatsapp_message_id = None
        /\ messages[m].error_message \in RequestErrors
        /\ messages[n].account_id = messages[m].account_id
        /\ proc[p].op = "webhook" /\ proc[p].pc = "done" /\ proc[p].result = n

\* the request of p published one more notification in this step
C31_Published(p, bus) == Len(proc'[p].bus) = Len(bus) + 1

\* the notification the request of p published in this step
C31_Last(p) == proc'[p].bus[Len(proc'[p].bus)]

\* a message with the id of the status event at cur exists for its account
C31_Exists(cur) ==
    /\ HasItems(cur) /\ cur.msgs = <<>>
    /\ MessagesOf(cur.account, Get(Head(cur.stats), "id", None)) # {}

\* C31 as stated, for the step of p that handled the status event at cur
\* with bus published before: a status_update is published exactly when a
\* message with the event's id exists for the account
C31_StatusAsStated(p, cur, bus) ==
    (HasItems(cur) /\ cur.msgs = <<>>)
    => (C31_Exists(cur) <=> C31_Published(p, bus))

C31_StepAsStated ==
    \A p \in StoreProcs :
        /\ (proc[p].pc = "wh_item" /\ WebhookItem(p))
            => C31_StatusAsStated(p, proc[p].cur, proc[p].bus)
        /\ \A body \in NotifyBodies :
            (CanStart(p) /\ ReceiveWebhook(p, body))
            => C31_StatusAsStated(p, Advance(Cursor(Entries(body.data))), <<>>)

C31_Follows(p, cur, bus) ==
    /\ proc'[p].bus = bus \/ C31_Published(p, bus)
    /\ C31_Published(p, bus)
        => /\ SubSeq(proc'[p].bus, 1, Len(bus)) = bus
           /\ LET n == C31_Last(p)
              IN /\ n.message_id \in 1..Len(messages')
                 /\ n.account_id = messages'[n.message_id].account_id
                 /\ n.whatsapp_message_id = messages'[n.message_id].whatsapp_message_id
                 /\ n.status = messages'[n.message_id].status
                 /\ n.error_message = messages'[n.message_id].error_message
                 /\ n.type = "status_update"
                     => /\ C31_Exists(cur)
                        /\ Truthy(Get(Head(cur.stats), "status", None))
                        /\ n.account_id = cur.account
                        /\ n.whatsapp_message_id = Head(cur.stats).id
                        /\ Len(messages') = Len(messages)
                 /\ n.type = "new_message"
                     => /\ Len(messages') = Len(messages) + 1
                        /\ n.message_id = Len(messages')
                        /\ messages'[n.message_id].direction = "incoming"
                 /\ n.type \in {"status_update", "new_message"}

\* C31: notifications follow storage.  A request publishes a status_update
\* only for a status event that carries an id and a status and whose message
\* exists for the resolved account, at most once per event and with the
\* values stored by the step; it publishes a new_message only for an incoming
\* row it has just stored, at most once per row.
C31_Step ==
    \A p \in StoreProcs :
        /\ (proc[p].pc = "wh_item" /\ WebhookItem(p))
            => C31_Follows(p, proc[p].cur, proc[p].bus)
        /\ (proc[p].pc = "wh_goc_create" /\ WebhookInsert(p))
            => C31_Follows(p, proc[p].cur, proc[p].bus)
        /\ \A body \in NotifyBodies :
            (CanStart(p) /\ ReceiveWebhook(p, body))
            => C31_Follows(p, Advance(Cursor(Entries(body.data))), <<>>)

====
